---- MODULE Spec2Model ----
(***************************************************************************)
(* A model of server.py: the sequential accept loop, the bounded read      *)
(* loop, handle_request and http_response.                                 *)
(*                                                                         *)
(* Bytes.  A byte string is a sequence of tokens.  A token is a TLA+       *)
(* string standing for the bytes it spells; CR, LF and SP are always       *)
(* tokens of their own, so that the searches for b"\r\n\r\n", "\r\n" and   *)
(* " " are searches for tokens.  Two byte strings are equal as Python      *)
(* strings iff their tokens concatenate (Str) to the same TLA+ string.     *)
(***************************************************************************)
EXTENDS Integers, Sequences, FiniteSets, TLC

(* ------------------------------------------------------------------ *)
(* Program constants                                                    *)
(* ------------------------------------------------------------------ *)
\* len(buffer) < 65536 in the read loop's condition
CAP == 65536
\* connection.recv(4096)
BUFSIZE == 4096
\* connection.settimeout(5)
TIMEOUT == 5

(* ------------------------------------------------------------------ *)
(* Bounds of the model                                                  *)
(* ------------------------------------------------------------------ *)
\* the clock of a connection saturates here
MaxClock == 6
\* the delay of a client that answers slowly, but before the timeout
SlowDelay == 3

CR == "\r"
LF == "\n"
SP == " "
\* one byte that is not valid UTF-8 (0xFF), and what decoding replaces it by
BadByte == "<FF>"
Replacement == "<U+FFFD>"

CRLF == <<CR, LF>>
DELIM == <<CR, LF, CR, LF>>

RECURSIVE Rep(_, _)
\* the string s repeated n times
Rep(s, n) ==
    IF n = 0 THEN ""
    ELSE IF n % 2 = 1 THEN s \o Rep(s, n - 1)
    ELSE LET h == Rep(s, n \div 2) IN h \o h

RECURSIVE ByteLen(_)
\* len(b) for a byte string b
ByteLen(b) ==
    IF b = <<>> THEN 0
    ELSE (IF Head(b) = BadByte THEN 1 ELSE Len(Head(b))) + ByteLen(Tail(b))

RECURSIVE Str(_)
\* the Python string a token sequence spells
Str(b) == IF b = <<>> THEN "" ELSE Head(b) \o Str(Tail(b))

\* the least index at which sep occurs in b, 0 if it does not occur
Find(b, sep) ==
    LET hits == {i \in 1..(Len(b) - Len(sep) + 1) : SubSeq(b, i, i + Len(sep) - 1) = sep}
    IN IF hits = {} THEN 0 ELSE CHOOSE i \in hits : \A j \in hits : i <= j

\* sep in b
Contains(b, sep) == Find(b, sep) # 0

RECURSIVE Split(_, _, _)
\* b.split(sep, maxsplit): the list of the pieces
Split(b, sep, maxsplit) ==
    LET i == Find(b, sep)
    IN IF maxsplit = 0 \/ i = 0 THEN <<b>>
       ELSE <<SubSeq(b, 1, i - 1)>> \o
            Split(SubSeq(b, i + Len(sep), Len(b)), sep, maxsplit - 1)

\* bytes.decode("utf-8", "replace")
Decode(b) == [i \in 1..Len(b) |-> IF b[i] = BadByte THEN Replacement ELSE b[i]]

\* str(n) in an f-string
Format(n) == ToString(n)

RECURSIVE Join(_, _)
\* sep.join(lines)
Join(lines, sep) ==
    IF lines = <<>> THEN <<>>
    ELSE IF Len(lines) = 1 THEN lines[1]
    ELSE lines[1] \o sep \o Join(Tail(lines), sep)

(* ------------------------------------------------------------------ *)
(* http_response                                                        *)
(* ------------------------------------------------------------------ *)
\* http_response with the headers ended by one CRLF only: no blank line
http_response_NoBlankLine(status, content_type, body) ==
    LET head == << <<"HTTP/1.1", SP>> \o status,
                   <<"Content-Type:", SP>> \o content_type,
                   <<"Content-Length:", SP, Format(ByteLen(body))>>,
                   <<"Connection:", SP, "close">> >>
    IN (Join(head, CRLF) \o CRLF) \o body

\* http_response with a Content-Length that counts the blank line's CRLF as well
http_response_CountsBlankLine(status, content_type, body) ==
    LET head == << <<"HTTP/1.1", SP>> \o status,
                   <<"Content-Type:", SP>> \o content_type,
                   <<"Content-Length:", SP, Format(ByteLen(body) + ByteLen(CRLF))>>,
                   <<"Connection:", SP, "close">> >>
    IN (Join(head, CRLF) \o DELIM) \o body

http_response(status, content_type, body) ==
    LET head == << <<"HTTP/1.1", SP>> \o status,
                   <<"Content-Type:", SP>> \o content_type,
                   <<"Content-Length:", SP, Format(ByteLen(body))>>,
                   <<"Connection:", SP, "close">> >>
    IN (Join(head, CRLF) \o DELIM) \o body

TEXT_PLAIN == <<"text/plain;", SP, "charset=utf-8">>
TEXT_HTML == <<"text/html;", SP, "charset=utf-8">>
APP_JSON == <<"application/json;", SP, "charset=utf-8">>

\* json.dumps({"message": "Hello from my Tiny HTTP Server", "ok": True}).encode("utf-8")
HELLO_JSON ==
    <<"{\"message\":", SP, "\"Hello", SP, "from", SP, "my", SP, "Tiny", SP, "HTTP", SP,
      "Server\",", SP, "\"ok\":", SP, "true}">>

(* ------------------------------------------------------------------ *)
(* handle_request                                                       *)
(* ------------------------------------------------------------------ *)
\* the request line split on every " ": split(" ") without the maxsplit of 2
RequestLineParts_Unlimited(req) ==
    LET head == Decode(Split(req, DELIM, 1)[1])
        request_line == Split(head, CRLF, 1)[1]
    IN Split(request_line, <<SP>>, -1)

\* the pieces taken from the whole head instead of its first line
RequestLineParts_WholeHead(req) ==
    LET head == Decode(Split(req, DELIM, 1)[1])
    IN Split(head, <<SP>>, 2)

\* the try block: the pieces of the request line, split at most twice on " "
RequestLineParts(req) ==
    LET head == Decode(Split(req, DELIM, 1)[1])
        request_line == Split(head, CRLF, 1)[1]
    IN Split(request_line, <<SP>>, 2)

\* the unpacking with a check of the protocol version added
UnpackFails_Version(parts) ==
    IF Len(parts) # 3 THEN TRUE ELSE Str(parts[3]) # "HTTP/1.1"

\* method, path, _ = ... raises ValueError unless there are exactly three pieces
UnpackFails(parts) == Len(parts) # 3

\* handle_request with the paths looked up before the method is checked
handle_request_PathFirst(req, index) ==
    LET parts == RequestLineParts(req)
    IN IF UnpackFails(parts)
       THEN http_response(<<"400", SP, "Bad", SP, "Request">>, TEXT_PLAIN,
                          <<"bad", SP, "request">>)
       ELSE LET method == Str(parts[1])
                path == Str(parts[2])
            IN IF path = "/" \/ path = "/index.html"
               THEN http_response(<<"200", SP, "OK">>, TEXT_HTML, index)
               ELSE IF path = "/api/hello"
               THEN http_response(<<"200", SP, "OK">>, APP_JSON, HELLO_JSON)
               ELSE IF method # "GET"
               THEN http_response(<<"405", SP, "Method", SP, "Not", SP, "Allowed">>, TEXT_PLAIN,
                                  <<"Only", SP, "GET", SP, "Method", SP, "Supported">>)
               ELSE http_response(<<"404", SP, "Not", SP, "Found">>, TEXT_PLAIN,
                                  <<"Not", SP, "Found">>)

\* handle_request serving the index for "/" only
handle_request_NoIndexHtml(req, index) ==
    LET parts == RequestLineParts(req)
    IN IF UnpackFails(parts)
       THEN http_response(<<"400", SP, "Bad", SP, "Request">>, TEXT_PLAIN,
                          <<"bad", SP, "request">>)
       ELSE LET method == Str(parts[1])
                path == Str(parts[2])
            IN IF method # "GET"
               THEN http_response(<<"405", SP, "Method", SP, "Not", SP, "Allowed">>, TEXT_PLAIN,
                                  <<"Only", SP, "GET", SP, "Method", SP, "Supported">>)
               ELSE IF path = "/"
               THEN http_response(<<"200", SP, "OK">>, TEXT_HTML, index)
               ELSE IF path = "/api/hello"
               THEN http_response(<<"200", SP, "OK">>, APP_JSON, HELLO_JSON)
               ELSE http_response(<<"404", SP, "Not", SP, "Found">>, TEXT_PLAIN,
                                  <<"Not", SP, "Found">>)

handle_request(req, index) ==
    LET parts == RequestLineParts(req)
    IN IF UnpackFails(parts)
       THEN http_response(<<"400", SP, "Bad", SP, "Request">>, TEXT_PLAIN,
                          <<"bad", SP, "request">>)
       ELSE LET method == Str(parts[1])
                path == Str(parts[2])
            IN IF method # "GET"
               THEN http_response(<<"405", SP, "Method", SP, "Not", SP, "Allowed">>, TEXT_PLAIN,
                                  <<"Only", SP, "GET", SP, "Method", SP, "Supported">>)
               ELSE IF path = "/" \/ path = "/index.html"
               THEN http_response(<<"200", SP, "OK">>, TEXT_HTML, index)
               ELSE IF path = "/api/hello"
               THEN http_response(<<"200", SP, "OK">>, APP_JSON, HELLO_JSON)
               ELSE http_response(<<"404", SP, "Not", SP, "Found">>, TEXT_PLAIN,
                                  <<"Not", SP, "Found">>)

(* ------------------------------------------------------------------ *)
(* The clients: the byte streams a peer may send on one connection.     *)
(* A recv returns the next bytes of one of these streams, cut anywhere   *)
(* between two tokens; the peer may stop, stall or reset at any point.   *)
(* ------------------------------------------------------------------ *)
Methods == {"GET", "POST"}
Paths == {"/", "/index.html", "/api/hello", "/nope"}
Versions == {"HTTP/1.1", "x"}

RequestLines ==
    {<<>>, <<BadByte>>, <<SP, "GET", SP, "/">>, <<"GET", SP, SP, "/">>,
     <<"G", "ET", SP, "/", SP, "HTTP/1.1">>, <<"get", SP, "/", SP, "HTTP/1.1">>}
    \cup {<<m, SP, p, SP, v>> : m \in Methods, p \in Paths, v \in Versions}
    \cup {<<m, SP, p, SP, "HTTP/1.1", SP, "x">> : m \in Methods, p \in Paths}

Tails ==
    {DELIM,
     CRLF \o <<"Host:", SP, "x">> \o DELIM,
     DELIM \o <<"body">>,
     CRLF \o <<"POST", SP, "/", SP, "x">> \o DELIM \o <<"GET", SP, "/">> \o DELIM,
     <<LF, LF>>}

\* a request with one byte short of a full recv in front, or nothing
FillHeads == {<<>>, <<Rep("x", BUFSIZE - 1)>>}
\* full recvs of filler: enough of them to pass the cap
FillCount == CAP \div BUFSIZE + 1
FillStreams ==
    {h \o [i \in 1..n |-> Rep("x", BUFSIZE)] \o t :
        h \in FillHeads, n \in 0..FillCount, t \in {<<>>, DELIM}}

Streams == {l \o t : l \in RequestLines, t \in Tails} \cup FillStreams

\* what one recv(BUFSIZE) may return when buf has been received so far: the next
\* token of a stream, or all that is left of it, as far as BUFSIZE bytes go
Chunks(buf) ==
    LET n == Len(buf)
        rest == {s \in Streams : Len(s) > n /\ SubSeq(s, 1, n) = buf}
    IN {c \in {SubSeq(s, n + 1, n + 1) : s \in rest} \cup
               {SubSeq(s, n + 1, Len(s)) : s \in rest} : ByteLen(c) <= BUFSIZE}

\* the contents index.html may have
IndexFiles == {<<>>, <<"<h1>Tiny</h1>", CR, LF, CR, LF, "<p>", BadByte, "</p>">>}

\* how long a blocking call on the connection may take before it returns
Delays == {0, SlowDelay, TIMEOUT + 1}

(* ------------------------------------------------------------------ *)
(* State                                                                *)
(* ------------------------------------------------------------------ *)
VARIABLES
    pc,        \* the statement the loop is at
    INDEX,     \* Path("index.html").read_bytes()
    open,      \* accepted connections not yet closed
    timeout,   \* the connection's timeout: <<>> (None, blocking) or <<seconds>>
    buffer,    \* the variable buffer
    chunk,     \* the variable chunk
    response,  \* the value of handle_request(buffer), the argument of sendall
    sent,      \* the bytes written to the current connection
    nsend,     \* the sendall calls made on the current connection
    exc,       \* the exception being raised: "none", "timeout", "aborted", "error"
    log,       \* the last message printed for the current connection
    elapsed,   \* seconds since the current connection was accepted
    received,  \* the bytes recv has returned on the current connection
    ref        \* an earlier exchange kept for comparison: <<>> or <<request, response>>

vars == <<pc, INDEX, open, timeout, buffer, chunk, response, sent, nsend, exc, log,
          elapsed, received, ref>>

Excs == {"timeout", "aborted", "error"}

Init ==
    /\ pc = "accept"
    /\ INDEX \in IndexFiles
    /\ open = 0
    /\ timeout = <<>>
    /\ buffer = <<>>
    /\ chunk = <<>>
    /\ response = <<>>
    /\ sent = <<>>
    /\ nsend = 0
    /\ exc = "none"
    /\ log = "serving"
    /\ elapsed = 0
    /\ received = <<>>
    /\ ref = <<>>

\* the clock after a blocking call of d seconds
Tick(d) == IF elapsed + d > MaxClock THEN MaxClock ELSE elapsed + d

\* a blocking call returns after d seconds only if the timeout has not run out
InTime(d) == IF timeout = <<>> THEN TRUE ELSE d < timeout[1]

(* ------------------------------------------------------------------ *)
(* The accept loop                                                      *)
(* ------------------------------------------------------------------ *)
\* connection, address = server.accept(); print(...); with connection:
Accept ==
    /\ pc = "accept"
    /\ pc' = "settimeout"
    /\ open' = open + 1
    /\ timeout' = <<>>
    /\ response' = <<>>
    /\ sent' = <<>>
    /\ nsend' = 0
    /\ log' = "incoming"
    /\ elapsed' = 0
    /\ received' = <<>>
    /\ UNCHANGED <<INDEX, ref, buffer, chunk, exc>>

\* server.accept() raises: nothing encloses it but "with server"
AcceptRaises ==
    /\ pc = "accept"
    /\ pc' = "crashed"
    /\ exc' = "error"
    /\ UNCHANGED <<INDEX, ref, received, open, timeout, buffer, chunk, response, sent, nsend,
                   log, elapsed>>

\* the loop without settimeout(5): the connection stays blocking
SetTimeout_Unset ==
    /\ pc = "settimeout"
    /\ timeout' = <<>>
    /\ buffer' = <<>>
    /\ pc' = "read"
    /\ UNCHANGED <<INDEX, ref, received, open, chunk, response, sent, nsend, exc, log, elapsed>>

\* the loop with buffer = b"" moved out of it: the buffer is never emptied
SetTimeout_NoReset ==
    /\ pc = "settimeout"
    /\ timeout' = <<TIMEOUT>>
    /\ pc' = "read"
    /\ UNCHANGED <<INDEX, ref, received, open, buffer, chunk, response, sent, nsend, exc,
                   log, elapsed>>

\* connection.settimeout(5); try: buffer = b""
SetTimeout ==
    /\ pc = "settimeout"
    /\ timeout' = <<TIMEOUT>>
    /\ buffer' = <<>>
    /\ pc' = "read"
    /\ UNCHANGED <<INDEX, ref, received, open, chunk, response, sent, nsend, exc, log, elapsed>>

\* connection.settimeout(5) raises, before the try block is entered
SetTimeoutRaises ==
    /\ pc = "settimeout"
    /\ exc' = "error"
    /\ pc' = "exit"
    /\ UNCHANGED <<INDEX, ref, received, open, timeout, buffer, chunk, response, sent, nsend, log, elapsed>>

\* the loop looking for one CRLF instead of the blank line
LoopCondition_SingleCRLF(buf) == ~Contains(buf, CRLF) /\ ByteLen(buf) < CAP

\* the loop without the size cap
LoopCondition_NoCap(buf) == ~Contains(buf, DELIM)

\* the delimiter looked for in the last chunk instead of the accumulated buffer
LoopCondition_ChunkOnly(buf) == ~Contains(chunk, DELIM) /\ ByteLen(buf) < CAP

\* while b"\r\n\r\n" not in buffer and len(buffer) < 65536
LoopCondition(buf) == ~Contains(buf, DELIM) /\ ByteLen(buf) < CAP

\* the loop condition is false: fall out of the loop
LoopExit ==
    /\ pc = "read"
    /\ ~LoopCondition(buffer)
    /\ pc' = "respond"
    /\ UNCHANGED <<INDEX, ref, received, open, timeout, buffer, chunk, response, sent, nsend, exc,
                   log, elapsed>>

\* chunk = connection.recv(4096) returns data; buffer += chunk
RecvData ==
    /\ pc = "read"
    /\ LoopCondition(buffer)
    /\ \E c \in Chunks(buffer), d \in Delays :
         /\ InTime(d)
         /\ chunk' = c
         /\ buffer' = buffer \o c
         /\ received' = received \o c
         /\ elapsed' = Tick(d)
    /\ pc' = "read"
    /\ UNCHANGED <<INDEX, ref, open, timeout, response, sent, nsend, exc, log>>

\* chunk = connection.recv(4096) returns b"": if not chunk: break
RecvEOF ==
    /\ pc = "read"
    /\ LoopCondition(buffer)
    /\ \E d \in Delays :
         /\ InTime(d)
         /\ elapsed' = Tick(d)
    /\ chunk' = <<>>
    /\ pc' = "respond"
    /\ UNCHANGED <<INDEX, ref, received, open, timeout, buffer, response, sent, nsend, exc, log>>

\* connection.recv(4096) raises socket.timeout after the timeout has run out
RecvTimeout ==
    /\ pc = "read"
    /\ LoopCondition(buffer)
    /\ timeout # <<>>
    /\ elapsed' = Tick(timeout[1])
    /\ exc' = "timeout"
    /\ pc' = "except"
    /\ UNCHANGED <<INDEX, ref, received, open, timeout, buffer, chunk, response, sent, nsend, log>>

\* connection.recv(4096) raises ConnectionAbortedError or another exception
RecvRaises ==
    /\ pc = "read"
    /\ LoopCondition(buffer)
    /\ \E e \in Excs \ {"timeout"}, d \in Delays :
         /\ InTime(d)
         /\ elapsed' = Tick(d)
         /\ exc' = e
    /\ pc' = "except"
    /\ UNCHANGED <<INDEX, ref, received, open, timeout, buffer, chunk, response, sent, nsend, log>>

\* handle_request(buffer) is evaluated, then passed to sendall
Respond ==
    /\ pc = "respond"
    /\ response' = handle_request(buffer, INDEX)
    /\ pc' = "sendall"
    /\ UNCHANGED <<INDEX, ref, received, open, timeout, buffer, chunk, sent, nsend, exc, log, elapsed>>

\* a keep-alive loop: after the response the connection is read again
Sendall_KeepAlive ==
    /\ pc = "sendall"
    /\ \E d \in Delays :
         /\ InTime(d)
         /\ elapsed' = Tick(d)
    /\ sent' = sent \o response
    /\ nsend' = nsend + 1
    /\ log' = "sent"
    /\ buffer' = <<>>
    /\ pc' = IF nsend = 0 THEN "read" ELSE "exit"
    /\ UNCHANGED <<INDEX, ref, received, open, timeout, chunk, response, exc>>

\* sendall on a socket whose timeout does not apply to writes
Sendall_Unbounded ==
    /\ pc = "sendall"
    /\ \E d \in Delays : elapsed' = Tick(d)
    /\ sent' = sent \o response
    /\ nsend' = nsend + 1
    /\ log' = "sent"
    /\ pc' = "exit"
    /\ UNCHANGED <<INDEX, ref, received, open, timeout, buffer, chunk, response, exc>>

\* connection.sendall(response) writes all of it
Sendall ==
    /\ pc = "sendall"
    /\ \E d \in Delays :
         /\ InTime(d)
         /\ elapsed' = Tick(d)
    /\ sent' = sent \o response
    /\ nsend' = nsend + 1
    /\ log' = "sent"
    /\ pc' = "exit"
    /\ UNCHANGED <<INDEX, ref, received, open, timeout, buffer, chunk, response, exc>>

\* how much of a response a failing sendall may have written
PartialWrites(r) == {0, Len(r) - 1}

\* connection.sendall(response) raises socket.timeout: the timeout bounds the whole call
SendallTimeout ==
    /\ pc = "sendall"
    /\ timeout # <<>>
    /\ \E k \in PartialWrites(response) : sent' = sent \o SubSeq(response, 1, k)
    /\ nsend' = nsend + 1
    /\ elapsed' = Tick(timeout[1])
    /\ exc' = "timeout"
    /\ pc' = "except"
    /\ UNCHANGED <<INDEX, ref, received, open, timeout, buffer, chunk, response, log>>

\* connection.sendall(response) raises ConnectionAbortedError or another exception
SendallRaises ==
    /\ pc = "sendall"
    /\ \E k \in PartialWrites(response), e \in Excs \ {"timeout"}, d \in Delays :
         /\ InTime(d)
         /\ sent' = sent \o SubSeq(response, 1, k)
         /\ elapsed' = Tick(d)
         /\ exc' = e
    /\ nsend' = nsend + 1
    /\ pc' = "except"
    /\ UNCHANGED <<INDEX, ref, received, open, timeout, buffer, chunk, response, log>>

\* the message the except clause matching e prints
Handler(e) ==
    IF e = "timeout" THEN "Connection timed out"
    ELSE IF e = "aborted" THEN "Connection aborted"
    ELSE "Error handling request"

\* handlers that print and raise again
Except_Reraise ==
    /\ pc = "except"
    /\ log' = Handler(exc)
    /\ pc' = "exit"
    /\ UNCHANGED <<INDEX, ref, received, open, timeout, buffer, chunk, response, sent, nsend, exc, elapsed>>

\* handlers that answer the fault with a response of their own
Except_Reply ==
    /\ pc = "except"
    /\ log' = Handler(exc)
    /\ exc' = "none"
    /\ sent' = sent \o http_response(<<"500", SP, "Internal", SP, "Server", SP, "Error">>,
                                     TEXT_PLAIN, <<>>)
    /\ nsend' = nsend + 1
    /\ pc' = "exit"
    /\ UNCHANGED <<INDEX, ref, received, open, timeout, buffer, chunk, response, elapsed>>

\* except socket.timeout / except ConnectionAbortedError / except Exception
Except ==
    /\ pc = "except"
    /\ log' = Handler(exc)
    /\ exc' = "none"
    /\ pc' = "exit"
    /\ UNCHANGED <<INDEX, ref, received, open, timeout, buffer, chunk, response, sent, nsend, elapsed>>

\* where the loop goes once "with connection" has closed the connection
AfterExit(e) == IF e = "none" THEN "accept" ELSE "crashed"

\* the loop without "with connection": the connection is never closed
Exit_Leak ==
    /\ pc = "exit"
    /\ pc' = AfterExit(exc)
    /\ UNCHANGED <<INDEX, ref, received, open, timeout, buffer, chunk, response, sent, nsend, exc, log,
                   elapsed>>

\* the end of "with connection": the connection is closed (close() releases the
\* descriptor whatever state the peer left it in); an exception in flight goes on
Exit ==
    /\ pc = "exit"
    /\ open' = open - 1
    /\ pc' = AfterExit(exc)
    /\ UNCHANGED <<INDEX, ref, received, timeout, buffer, chunk, response, sent, nsend, exc, log,
                   elapsed>>

Next ==
    \/ Accept
    \/ AcceptRaises
    \/ SetTimeout
    \/ SetTimeoutRaises
    \/ LoopExit
    \/ RecvData
    \/ RecvEOF
    \/ RecvTimeout
    \/ RecvRaises
    \/ Respond
    \/ Sendall
    \/ SendallTimeout
    \/ SendallRaises
    \/ Except
    \/ Exit

Spec == Init /\ [][Next]_vars

(* ------------------------------------------------------------------ *)
(* What the claims speak of                                             *)
(* ------------------------------------------------------------------ *)
\* s is a prefix of t
IsPrefix(s, t) == Len(s) <= Len(t) /\ SubSeq(t, 1, Len(s)) = s

\* the bytes of buf before its first CRLF, all of buf if it has none
FirstLine(buf) ==
    LET ends == {i \in 1..Len(buf) : buf[i] = CR /\ i < Len(buf) /\ buf[i + 1] = LF}
    IN IF ends = {} THEN buf
       ELSE SubSeq(buf, 1, (CHOOSE i \in ends : \A j \in ends : i <= j) - 1)

\* the number of space characters in a line
Spaces(line) == Cardinality({i \in 1..Len(line) : line[i] = SP})

\* the status code of a response: the token after "HTTP/1.1 "
StatusCode(r) == IF Len(r) >= 3 THEN r[3] ELSE ""

StatusCodes == {"200", "400", "404", "405"}

\* the header lines of a response: what precedes its first blank line, cut at CRLFs
HeaderLines(r) == Split(Split(r, DELIM, 1)[1], CRLF, -1)

\* a complete response: status line, three headers, blank line, body
Complete(r) ==
    /\ Contains(r, DELIM)
    /\ LET lines == HeaderLines(r)
       IN /\ Len(lines) = 4
          /\ IsPrefix(<<"HTTP/1.1", SP>>, lines[1])
          /\ StatusCode(r) \in StatusCodes
          /\ IsPrefix(<<"Content-Type:", SP>>, lines[2])
          /\ IsPrefix(<<"Content-Length:", SP>>, lines[3])
          /\ lines[4] = <<"Connection:", SP, "close">>

\* the connection's block has been left: nothing more is done with the connection
Left == pc \in {"exit", "accept", "crashed"}

C2_AtMostCap == ByteLen(buffer) <= CAP

(* C2 (amended): the buffer never holds more than 65535 + 4096 bytes:   *)
(* a recv is issued only below the cap and adds at most 4096 bytes.     *)
C2_AtMostCapPlusRecv == ByteLen(buffer) <= CAP - 1 + BUFSIZE

\* the bound is reached
C2_Witness == pc = "read" /\ ByteLen(buffer) = CAP - 1 + BUFSIZE

(* ------------------------------------------------------------------ *)
(* C3 (as stated): the response is 400 exactly when the request line    *)
(* does not consist of exactly three space-separated tokens.            *)
(* ------------------------------------------------------------------ *)
C3_NotThreeTokens ==
    pc = "sendall" =>
        (StatusCode(response) = "400" <=> Spaces(FirstLine(buffer)) # 2)

(* C3 (amended): the response is 400 exactly when the request line has  *)
(* fewer than two spaces; what follows the second space, spaces         *)
(* included, is the third token.                                        *)
C3_FewerThanThreeTokens ==
    pc = "sendall" =>
        (StatusCode(response) = "400" <=> Spaces(FirstLine(buffer)) < 2)

\* the delimiter alone is answered 400
C3_Witness ==
    /\ pc = "sendall"
    /\ buffer = DELIM
    /\ StatusCode(response) = "400"

(* ------------------------------------------------------------------ *)
(* C4 (as stated): once the server is bound, no failure of a socket     *)
(* operation ends the loop.                                             *)
(* ------------------------------------------------------------------ *)
C4_LoopSurvives == pc # "crashed"

(* ------------------------------------------------------------------ *)
(* C5: an exception raised while the request is read, the response      *)
(* computed or written goes to a handler of the connection; the handler *)
(* ends it; the connection is then closed and the loop is at accept.    *)
(* ------------------------------------------------------------------ *)
C5_FaultsStayInConnection ==
    [][/\ (pc \in {"read", "respond", "sendall"} /\ exc' # "none") => pc' = "except"
       /\ pc = "except" => (pc' = "exit" /\ exc' = "none")
       /\ (pc = "exit" /\ exc = "none") => (pc' = "accept" /\ open' = 0)]_vars

\* the loop is back at accept after a connection that timed out with a partial request
C5_Witness ==
    /\ pc = "accept"
    /\ open = 0
    /\ log = "Connection timed out"
    /\ buffer # <<>>

(* ------------------------------------------------------------------ *)
(* C6: at most one accepted connection is open; the loop is at accept   *)
(* only with no connection open and the previous one answered or failed.*)
(* ------------------------------------------------------------------ *)
C6_Sequential ==
    /\ open <= 1
    /\ pc = "accept" => (open = 0 /\ log # "incoming")
    /\ pc \in {"settimeout", "read", "respond", "sendall", "except", "exit"} => open = 1

\* the loop is at accept again after a connection that was answered
C6_Witness == pc = "accept" /\ open = 0 /\ log = "sent" /\ nsend = 1

(* ------------------------------------------------------------------ *)
(* C7: a connection gets at most one sendall, carries at most the bytes *)
(* of one response, is not read after the sendall, and is closed when   *)
(* its block is left, whatever the outcome.                             *)
(* ------------------------------------------------------------------ *)
C7_OneExchange ==
    /\ nsend <= 1
    /\ IsPrefix(sent, response)
    /\ nsend = 1 => pc \in {"except", "exit", "accept", "crashed"}
    /\ pc \in {"accept", "crashed"} => open = 0

\* a connection closed after its one response
C7_Witness ==
    /\ pc = "accept"
    /\ open = 0
    /\ nsend = 1
    /\ sent = response
    /\ response # <<>>

(* ------------------------------------------------------------------ *)
(* C8 (as stated): the handling of one connection ends within 5 seconds *)
(* of its accept.                                                       *)
(* ------------------------------------------------------------------ *)
C8_WithinTimeout == Left => elapsed <= TIMEOUT

(* C8 (amended): every blocking call on the connection ends within 5    *)
(* seconds, and a client that sends nothing and does not close is       *)
(* dropped within 5 seconds of its accept; the timeout starts again at  *)
(* every recv.                                                          *)
C8_TimeoutPerCall ==
    /\ [][elapsed' - elapsed <= TIMEOUT]_vars
    /\ []((Left /\ buffer = <<>> /\ response = <<>> /\ log = "Connection timed out")
             => elapsed <= TIMEOUT)

\* a client that trickles its request is answered after more than 5 seconds
C8_Witness == pc = "accept" /\ log = "sent" /\ elapsed > TIMEOUT

(* ------------------------------------------------------------------ *)
(* C9: on a connection whose read phase ended with a fault (no response *)
(* was built), nothing is written before the connection is closed.      *)
(* ------------------------------------------------------------------ *)
C9_NoResponseOnFault ==
    (pc \in {"except", "exit", "accept", "crashed"} /\ response = <<>>) =>
        (sent = <<>> /\ nsend = 0)

\* a connection that timed out with part of a request received, and nothing written
C9_Witness ==
    /\ pc = "exit"
    /\ log = "Connection timed out"
    /\ buffer = <<"GET", SP, "/", SP, "HTTP/1.1", CR, LF>>
    /\ response = <<>>
    /\ sent = <<>>

(* ------------------------------------------------------------------ *)
(* C10: when the read phase ends without a fault, the response is       *)
(* complete before any byte of it is written, and sendall is called     *)
(* exactly once, with it.                                               *)
(* ------------------------------------------------------------------ *)
C10_CompleteThenSent ==
    /\ pc = "sendall" => (Complete(response) /\ sent = <<>> /\ nsend = 0)
    /\ (pc \in {"except", "exit"} /\ response # <<>>) =>
           (Complete(response) /\ nsend = 1 /\ IsPrefix(sent, response))
    /\ (pc = "exit" /\ log = "sent") => sent = response

\* the empty request of a peer that closed at once is answered, once
C10_Witness ==
    /\ pc = "exit"
    /\ log = "sent"
    /\ buffer = <<>>
    /\ nsend = 1
    /\ StatusCode(sent) = "400"

(* ------------------------------------------------------------------ *)
(* What the claims about the responses speak of                         *)
(* ------------------------------------------------------------------ *)
\* the bytes of a response after its first blank line
Body(r) == SubSeq(r, Find(r, DELIM) + Len(DELIM), Len(r))

Digit == <<"0", "1", "2", "3", "4", "5", "6", "7", "8", "9">>

RECURSIVE Decimal(_)
\* the decimal numeral of n
Decimal(n) ==
    IF n < 10 THEN Digit[n + 1] ELSE Decimal(n \div 10) \o Digit[(n % 10) + 1]

\* the request line has a method, a path and a third token
ThreeTokens(buf) == Spaces(FirstLine(buf)) >= 2

\* the method: the bytes of the request line before its first space
MethodOf(buf) ==
    LET line == FirstLine(buf) IN SubSeq(line, 1, Find(line, <<SP>>) - 1)

\* the path: the bytes of the request line between its first and second space
PathOf(buf) ==
    LET line == FirstLine(buf)
        after == SubSeq(line, Find(line, <<SP>>) + 1, Len(line))
    IN SubSeq(after, 1, Find(after, <<SP>>) - 1)

KnownPaths == {"/", "/index.html", "/api/hello"}

(* ------------------------------------------------------------------ *)
(* C11: in every response the headers are the status line,              *)
(* Content-Type, Content-Length and Connection: close, in that order,   *)
(* then one blank line, and the Content-Length value is the decimal     *)
(* byte length of what follows the blank line.                          *)
(* ------------------------------------------------------------------ *)
C11_ContentLength ==
    pc = "sendall" =>
        /\ Complete(response)
        /\ HeaderLines(response)[3] =
               <<"Content-Length:", SP, Decimal(ByteLen(Body(response)))>>
        /\ response = Join(HeaderLines(response), CRLF) \o DELIM \o Body(response)

\* the index, with a blank line and an undecodable byte in it, is served
C11_Witness ==
    /\ pc = "sendall"
    /\ StatusCode(response) = "200"
    /\ Body(response) = INDEX
    /\ Contains(INDEX, DELIM)
    /\ HeaderLines(response)[3] = <<"Content-Length:", SP, "25">>

(* ------------------------------------------------------------------ *)
(* C12: a request line with three tokens whose method is not GET is     *)
(* answered 405 "Only GET Method Supported", whatever the path.         *)
(* ------------------------------------------------------------------ *)
C12_MethodFirst ==
    (pc = "sendall" /\ ThreeTokens(buffer) /\ Str(MethodOf(buffer)) # "GET") =>
        /\ StatusCode(response) = "405"
        /\ Str(Body(response)) = "Only GET Method Supported"

\* POST to a known path is answered 405
C12_Witness ==
    /\ pc = "sendall"
    /\ ThreeTokens(buffer)
    /\ Str(MethodOf(buffer)) = "POST"
    /\ Str(PathOf(buffer)) = "/api/hello"
    /\ StatusCode(response) = "405"

(* ------------------------------------------------------------------ *)
(* C13: a GET request line with three tokens is answered 200 exactly    *)
(* when its path is "/", "/index.html" or "/api/hello" (the index as    *)
(* body for the first two), and 404 "Not Found" for every other path.   *)
(* ------------------------------------------------------------------ *)
C13_Routes ==
    (pc = "sendall" /\ ThreeTokens(buffer) /\ Str(MethodOf(buffer)) = "GET") =>
        LET path == Str(PathOf(buffer))
        IN /\ StatusCode(response) \in {"200", "404"}
           /\ StatusCode(response) = "200" <=> path \in KnownPaths
           /\ path \in {"/", "/index.html"} => Body(response) = INDEX
           /\ path \notin KnownPaths => Str(Body(response)) = "Not Found"

\* GET /index.html is answered with the index
C13_Witness ==
    /\ pc = "sendall"
    /\ ThreeTokens(buffer)
    /\ Str(MethodOf(buffer)) = "GET"
    /\ Str(PathOf(buffer)) = "/index.html"
    /\ StatusCode(response) = "200"
    /\ Body(response) = INDEX

(* ------------------------------------------------------------------ *)
(* C14: the same request bytes on two connections                       *)
(* ------------------------------------------------------------------ *)
\* the requests whose exchange may be kept for comparison
RefRequests == {<<>>, <<"GET", SP, "/", SP, "HTTP/1.1">> \o DELIM}

\* an observer keeps a finished exchange: the bytes received and the bytes sent
Remember ==
    /\ pc = "exit"
    /\ log = "sent"
    /\ ref = <<>>
    /\ received \in RefRequests
    /\ ref' = <<received, sent>>
    /\ UNCHANGED <<pc, INDEX, open, timeout, buffer, chunk, response, sent, nsend, exc, log,
                   elapsed, received>>

NextIdem == Next \/ Remember

\* the server, watched by an observer that keeps one exchange
SpecIdem == Init /\ [][NextIdem]_vars

(* C14: a later connection that has received the same bytes as a        *)
(* remembered one, whatever connections came in between, is about to    *)
(* be sent the same bytes; the index content never changes.             *)
C14_SameRequestSameResponse ==
    /\ []((pc = "sendall" /\ ref # <<>> /\ received = ref[1]) => response = ref[2])
    /\ [][INDEX' = INDEX]_vars

\* a later connection with the remembered request gets the remembered response
C14_Witness ==
    /\ pc = "sendall"
    /\ ref # <<>>
    /\ ref[1] # <<>>
    /\ received = ref[1]
    /\ response = ref[2]

(* ------------------------------------------------------------------ *)
(* C15: a client that never sends the delimiter cannot keep the read    *)
(* loop running: every recv that returns adds at least one byte, no     *)
(* recv is issued once 65536 bytes are buffered, the buffer then goes   *)
(* to handle_request, and sendall is called with a complete response    *)
(* before the connection's block is left.                               *)
(* ------------------------------------------------------------------ *)
C15_LoopStopsAtCap ==
    /\ [][(pc = "read" /\ pc' = "read") => ByteLen(buffer') > ByteLen(buffer)]_vars
    /\ [][(pc = "read" /\ ByteLen(buffer) >= CAP) =>
             (pc' = "respond" /\ buffer' = buffer)]_vars
    /\ []((pc \in {"except", "exit", "accept", "crashed"} /\ ByteLen(received) >= CAP) =>
             (nsend = 1 /\ Complete(response) /\ IsPrefix(sent, response)))

\* more than 65536 bytes without a delimiter were answered 400 and the block left
C15_Witness ==
    /\ pc = "exit"
    /\ log = "sent"
    /\ ByteLen(received) > CAP
    /\ ~Contains(received, DELIM)
    /\ buffer = received
    /\ StatusCode(sent) = "400"

(* ------------------------------------------------------------------ *)
(* C16: the response is a function of the request's first line and the  *)
(* index file only: the buffer a response was built from, its first     *)
(* line alone, and its first line followed by other header lines or     *)
(* other bytes after the delimiter all give the same response.          *)
(* ------------------------------------------------------------------ *)
LaterBytes ==
    {DELIM,
     CRLF \o <<"Host:", SP, "y">> \o CRLF \o <<"X:", SP, "GET", SP, "/", SP, "x">> \o DELIM,
     DELIM \o <<"GET", SP, "/", SP, "HTTP/1.1">> \o DELIM,
     CRLF \o <<"POST", SP, "/api/hello", SP, BadByte>> \o DELIM \o <<"body", SP, SP>>}

C16_FirstLineOnly ==
    pc = "sendall" =>
        /\ response = handle_request(FirstLine(buffer), INDEX)
        /\ \A t \in LaterBytes :
              response = handle_request(FirstLine(buffer) \o t, INDEX)

\* a GET of the index answered 200 with a POST line among the headers and a
\* request after the delimiter
C16_Witness ==
    /\ pc = "sendall"
    /\ buffer = <<"GET", SP, "/", SP, "HTTP/1.1">> \o CRLF \o <<"POST", SP, "/", SP, "x">>
                   \o DELIM \o <<"GET", SP, "/">> \o DELIM
    /\ StatusCode(response) = "200"
    /\ Body(response) = INDEX

(* ------------------------------------------------------------------ *)
(* C17: a request line with at least two spaces is never answered 400,  *)
(* and its response is the one for the same method and path with        *)
(* HTTP/1.1 as the third token.                                         *)
(* ------------------------------------------------------------------ *)
C17_VersionIgnored ==
    (pc = "sendall" /\ ThreeTokens(buffer)) =>
        /\ StatusCode(response) # "400"
        /\ response = handle_request(MethodOf(buffer) \o <<SP>> \o PathOf(buffer)
                                         \o <<SP, "HTTP/1.1">>, INDEX)

\* "GET / " with nothing after the second space is answered 200
C17_Witness ==
    /\ pc = "sendall"
    /\ FirstLine(buffer) = <<"GET", SP, "/", SP>>
    /\ StatusCode(response) = "200"

(* ------------------------------------------------------------------ *)
(* C18 (as stated): the timeout never ends a write: no connection is in *)
(* the timeout handler after sendall was called.                        *)
(* ------------------------------------------------------------------ *)
C18_WriteNeverTimesOut == (pc = "except" /\ exc = "timeout") => nsend = 0

(* C18 (amended): the timeout bounds sendall as well: sendall returns   *)
(* in less than 5 seconds or raises within 5 seconds, and a sendall     *)
(* that raised socket.timeout ends in the timeout handler.              *)
C18_WriteBounded ==
    /\ [][pc = "sendall" =>
             (pc' \in {"exit", "except"} /\ elapsed' - elapsed <= TIMEOUT)]_vars
    /\ [][(pc = "sendall" /\ pc' = "exit") => elapsed' - elapsed < TIMEOUT]_vars
    /\ [][(pc = "except" /\ exc = "timeout" /\ nsend = 1) =>
             (pc' = "exit" /\ log' = "Connection timed out")]_vars

\* a client that sent its request at once and never reads: sendall timed out
C18_Witness ==
    /\ pc = "except"
    /\ exc = "timeout"
    /\ nsend = 1
    /\ elapsed = TIMEOUT
    /\ Contains(received, DELIM)
    /\ StatusCode(response) = "200"

(* ------------------------------------------------------------------ *)
(* C19: once the accumulated buffer holds the delimiter no more is      *)
(* read, however the bytes were cut into chunks, and the response is    *)
(* the one for the bytes up to and including the first delimiter.       *)
(* ------------------------------------------------------------------ *)
UpToDelim(b) == SubSeq(b, 1, Find(b, DELIM) + Len(DELIM) - 1)

C19_ChunkingIrrelevant ==
    /\ [][(pc = "read" /\ Contains(buffer, DELIM)) =>
             (pc' = "respond" /\ buffer' = buffer)]_vars
    /\ []((pc = "sendall" /\ Contains(received, DELIM) /\ ByteLen(UpToDelim(received)) <= CAP) =>
             /\ buffer = received
             /\ response = handle_request(UpToDelim(received), INDEX))

\* the last byte of the delimiter came in a chunk of its own with a body behind it
C19_Witness ==
    /\ pc = "sendall"
    /\ chunk = <<LF, "body">>
    /\ buffer = <<"GET", SP, "/api/hello", SP, "HTTP/1.1">> \o DELIM \o <<"body">>
    /\ Body(response) = HELLO_JSON
====
